---- MODULE Spec2Model ----
(***************************************************************************)
(* cricstats: the normalizing bulk-insertion engine                        *)
(* (app/infrastructure/database/db_wrapper.py, PostgresWrapper).           *)
(*                                                                         *)
(* The statement insert_values builds is kept as a structured value (the   *)
(* VALUES row source, the LEFT JOINs of the normalization CTE, the         *)
(* projection, the NOT EXISTS predicate) and is evaluated against a target *)
(* table T(a NOT NULL, b) and a reference table R(id, n) with SQL's        *)
(* three-valued equality.  Every value is a string; NULL and the Ellipsis  *)
(* sentinel are two reserved strings.                                      *)
(***************************************************************************)
EXTENDS Integers, Sequences, FiniteSets, TLC

\* ------------------------------------------------------------------ bounds
MaxRows == 2
MaxInit == 2
MaxCalls == 2

\* ------------------------------------------------------------------ values
NULL == "NULL"
Ellipsis == "..."
Ids == {"1", "2"}
Names == {"x", "y", "z"}

\* The order in which a dict literal of the callers lists its keys.
ColOrder == <<"a", "b", "n", "m">>
BatchCols == {ColOrder[i] : i \in 1..Len(ColOrder)}

\* The target table T and the reference table R of the model's database.
TCols == {"a", "b"}
NotNullCols == {"a"}
RCols == {"id", "n"}
RName == "R"

Min(S) == CHOOSE x \in S : \A y \in S : x <= y
Range(s) == {s[i] : i \in 1..Len(s)}
SeqOfSet(S, order) == SelectSeq(order, LAMBDA c : c \in S)

\* list(d.keys()) of a row dict
Keys(row) == SeqOfSet(DOMAIN row, ColOrder)

\* iterating a str yields its characters; len(str) is their number
Chars(s) ==
    CASE s = "ab" -> <<"a", "b">>
      [] s = "id" -> <<"i", "d">>
      [] OTHER -> <<s>>

\* a dict and a list as row values, and json.dumps of them
PyDict == "dict(k=1)"
PyList == "list(1, 2)"
json_dumps(v) ==
    CASE v = PyDict -> "{\"k\": 1}"
      [] v = PyList -> "[1, 2]"
      [] OTHER -> "\"" \o v \o "\""
\* row[col] if not isinstance(row[col], (dict, list)) else json.dumps(row[col])
ParamOf(v) == IF v \in {PyDict, PyList} THEN json_dumps(v) ELSE v

\* SQL "=" is true only of two equal non-NULL values
SqlEq(x, y) == x # NULL /\ y # NULL /\ x = y

\* ------------------------------------------------------- python outcomes
NoError == [type |-> "none", idx |-> 0, key |-> ""]
Error(t, i, k) == [type |-> t, idx |-> i, key |-> k]

\* a join key or a uniqueness entry: a str, a tuple of str, or another object
Str(s) == [kind |-> "str", v |-> <<s>>]
Tuple(t) == [kind |-> "tuple", v |-> t]
Other(t) == [kind |-> "other", v |-> t]

\* isinstance(k, Iterable): str and tuple are, None or an int is not
IsIterable(k) == k.kind \in {"str", "tuple"}
\* what iterating k yields, and len(k)
Items(k) == IF k.kind = "str" THEN Chars(k.v[1]) ELSE k.v

NormRef(kv, t2, k1, k2) ==
    [t2_key_value |-> kv, t2_name |-> t2, t1_key_join |-> k1, t2_key_join |-> k2]

\* ------------------------------------------------- Row Batch Validator
validate_columns(rows) ==
    LET columns == Range(Keys(rows[1]))
        bad == {i \in 1..Len(rows) : columns \ DOMAIN rows[i] # {}}
    IN IF bad = {} THEN NoError
       ELSE Error("ValueError:missing_columns", Min(bad) - 1, "")

validate_values(rows) ==
    LET bad == {i \in 1..Len(rows) :
                  \E k \in DOMAIN rows[i] : rows[i][k] = Ellipsis}
    IN IF bad = {} THEN NoError
       ELSE LET i == Min(bad)
                ks == SelectSeq(Keys(rows[i]), LAMBDA k : rows[i][k] = Ellipsis)
            IN Error("ValueError:ellipsis", i - 1, ks[1])

\* ------------------------------------------- Normalization Clause Builder
ZipKeys(a, b) == [i \in 1..Len(a) |-> <<a[i], b[i]>>]

\* The ON conditions of one rule: pairs <<batch column, reference column>>.
make_joins(rule) ==
    IF rule.t1_key_join.kind = "str" /\ rule.t2_key_join.kind = "str"
    THEN [err |-> NoError,
          joins |-> << <<rule.t1_key_join.v[1], rule.t2_key_join.v[1]>> >>]
    ELSE IF IsIterable(rule.t1_key_join) /\ IsIterable(rule.t2_key_join)
    THEN IF Len(Items(rule.t1_key_join)) # Len(Items(rule.t2_key_join))
         THEN [err |-> Error("ValueError:join_length", 0, ""), joins |-> <<>>]
         ELSE [err |-> NoError,
               joins |-> ZipKeys(Items(rule.t1_key_join), Items(rule.t2_key_join))]
    ELSE [err |-> Error("TypeError:join_keys", 0, ""), joins |-> <<>>]

\* faulty variant: the alias is the reference table's name alone
TableAliasNoIndex(rule, join_index) == rule.t2_name

\* table_alias = f"{rule.t2_name}_{join_index}"
TableAlias(rule, join_index) == rule.t2_name \o "_" \o ToString(join_index)

\* the LEFT JOINs of the CTE, in rule order, given each rule's ON conditions;
\* the first rule whose join keys are rejected raises
NormCte(norm_values, jn) ==
    IF \E i \in 1..Len(jn) : jn[i].err # NoError
    THEN [err |-> jn[Min({i \in 1..Len(jn) : jn[i].err # NoError})].err,
          joins |-> <<>>]
    ELSE [err |-> NoError,
          joins |-> [i \in 1..Len(norm_values) |->
                       [out |-> norm_values[i][1],
                        table |-> norm_values[i][2].t2_name,
                        alias |-> TableAlias(norm_values[i][2], i - 1),
                        value |-> norm_values[i][2].t2_key_value,
                        on |-> jn[i].joins]]]

\* norm_values is a dict: a sequence of <<output column, rule>> with distinct
\* columns.
make_cte_for_norm_values(norm_values, columns) ==
    NormCte(norm_values,
            [i \in 1..Len(norm_values) |-> make_joins(norm_values[i][2])])

\* ------------------------------------------- Deduplication Clause Builder
\* One AND-list of columns per entry; the lists are OR-ed.
get_exclusion_clause(conflict_columns) ==
    IF \E i \in 1..Len(conflict_columns) :
          conflict_columns[i].kind \notin {"str", "tuple"}
    THEN [err |-> Error("TypeError:conflict_column", 0, ""), conds |-> <<>>]
    ELSE [err |-> NoError,
          conds |-> [i \in 1..Len(conflict_columns) |-> conflict_columns[i].v]]

\* ------------------------------------------------ Insertion Query Builder
NoStmt ==
    [columns |-> <<>>, nrows |-> 0, joins |-> <<>>, source |-> "none",
     insert_cols |-> <<>>, select_cols |-> <<>>, exclusion |-> <<>>]

\* faulty variant: each row's values taken in the row's own key order
ParamsByPosition(rows, columns) ==
    [p \in 1..(Len(rows) * Len(columns)) |->
        ParamOf(rows[((p - 1) \div Len(columns)) + 1]
                    [Keys(rows[((p - 1) \div Len(columns)) + 1])
                        [((p - 1) % Len(columns)) + 1]])]

\* params: row-major, each row's values looked up by the columns of row 0,
\* a dict or a list replaced by its JSON text
Params(rows, columns) ==
    [p \in 1..(Len(rows) * Len(columns)) |->
        ParamOf(rows[((p - 1) \div Len(columns)) + 1]
                    [columns[((p - 1) % Len(columns)) + 1]])]

\* the stages _insert_values_query has entered when it stops at stage `last`
BuildStages(unique_columns, norm_values, last) ==
    <<"values_cte">>
    \o (IF norm_values # <<>> THEN <<"norm_cte">> ELSE <<>>)
    \o (IF last \in {"validate_values", "exclusion_clause"}
        THEN <<"validate_values">> ELSE <<>>)
    \o (IF last = "exclusion_clause" THEN <<"params", "projection">> ELSE <<>>)
    \o (IF last = "exclusion_clause" /\ unique_columns # <<>>
        THEN <<"exclusion_clause">> ELSE <<>>)

BuildFailed(e, stages) == [err |-> e, events |-> stages, stmt |-> NoStmt, params |-> <<>>]

\* faulty variant: the select list is written in the batch's column order
QueryTailBatchOrder(rows, columns, selected, unique_columns, norm_values, norm, excl) ==
    IF excl.err # NoError
    THEN BuildFailed(excl.err,
                     BuildStages(unique_columns, norm_values, "exclusion_clause"))
    ELSE [err |-> NoError,
          events |-> BuildStages(unique_columns, norm_values, "exclusion_clause"),
          stmt |-> [columns |-> columns,
                    nrows |-> Len(rows),
                    joins |-> norm.joins,
                    source |-> IF norm_values # <<>> THEN "new_rows_norm"
                               ELSE "new_rows",
                    insert_cols |-> selected,
                    select_cols |-> SeqOfSet(Range(selected), columns),
                    exclusion |-> excl.conds],
          params |-> Params(rows, columns)]

\* faulty variant: source_table is not switched to the normalized relation
QueryTailRawSource(rows, columns, selected, unique_columns, norm_values, norm, excl) ==
    IF excl.err # NoError
    THEN BuildFailed(excl.err,
                     BuildStages(unique_columns, norm_values, "exclusion_clause"))
    ELSE [err |-> NoError,
          events |-> BuildStages(unique_columns, norm_values, "exclusion_clause"),
          stmt |-> [columns |-> columns,
                    nrows |-> Len(rows),
                    joins |-> norm.joins,
                    source |-> "new_rows",
                    insert_cols |-> selected,
                    select_cols |-> selected,
                    exclusion |-> excl.conds],
          params |-> Params(rows, columns)]

\* lines 165-212: parameters, projection, exclusion clause, the statement
QueryTail(rows, columns, selected, unique_columns, norm_values, norm, excl) ==
    IF excl.err # NoError
    THEN BuildFailed(excl.err,
                     BuildStages(unique_columns, norm_values, "exclusion_clause"))
    ELSE [err |-> NoError,
          events |-> BuildStages(unique_columns, norm_values, "exclusion_clause"),
          stmt |-> [columns |-> columns,
                    nrows |-> Len(rows),
                    joins |-> norm.joins,
                    source |-> IF norm_values # <<>> THEN "new_rows_norm"
                               ELSE "new_rows",
                    insert_cols |-> selected,
                    select_cols |-> selected,
                    exclusion |-> excl.conds],
          params |-> Params(rows, columns)]

\* lines 163-212, once the CTEs are built: the sentinel scan, then the rest
QueryAfterCtes(rows, columns_to_insert, unique_columns, norm_values, norm, vv) ==
    IF norm.err # NoError
    THEN BuildFailed(norm.err, BuildStages(unique_columns, norm_values, "norm_cte"))
    ELSE IF vv # NoError
    THEN BuildFailed(vv, BuildStages(unique_columns, norm_values, "validate_values"))
    ELSE QueryTail(rows, Keys(rows[1]),
                   IF columns_to_insert # <<>> THEN columns_to_insert
                   ELSE Keys(rows[1]),
                   unique_columns, norm_values, norm,
                   IF unique_columns # <<>>
                   THEN get_exclusion_clause(unique_columns)
                   ELSE [err |-> NoError, conds |-> <<>>])

\* The stages of _insert_values_query in the order the code runs them; the
\* stage that raises ends the build.  columns_to_insert, unique_columns and
\* norm_values are sequences, the empty one standing for None (the code tests
\* them for truth only).
insert_values_query(rows, columns_to_insert, unique_columns, norm_values) ==
    QueryAfterCtes(rows, columns_to_insert, unique_columns, norm_values,
                   IF norm_values # <<>>
                   THEN make_cte_for_norm_values(norm_values, Keys(rows[1]))
                   ELSE [err |-> NoError, joins |-> <<>>],
                   validate_values(rows))

\* ------------------------------------------------------------ the engine
\* A table is a bag of rows: a function from the rows it holds to their
\* number of copies.
Copies(tbl, r) == IF r \in DOMAIN tbl THEN tbl[r] ELSE 0
TableOfSeq(s) == [r \in Range(s) |-> Cardinality({i \in 1..Len(s) : s[i] = r})]
TableAdd(t1, t2) ==
    [r \in (DOMAIN t1) \cup (DOMAIN t2) |-> Copies(t1, r) + Copies(t2, r)]
RECURSIVE SumOver(_, _)
SumOver(tbl, S) ==
    IF S = {} THEN 0
    ELSE tbl[CHOOSE x \in S : TRUE] + SumOver(tbl, S \ {CHOOSE x \in S : TRUE})
RowCount(tbl) == SumOver(tbl, DOMAIN tbl)

RECURSIVE SetToSeq(_)
SetToSeq(S) ==
    IF S = {} THEN <<>>
    ELSE <<CHOOSE y \in S : TRUE>> \o SetToSeq(S \ {CHOOSE y \in S : TRUE})

RECURSIVE Concat(_)
Concat(ss) == IF ss = <<>> THEN <<>> ELSE Head(ss) \o Concat(Tail(ss))

Pos(seq, c) == Min({i \in 1..Len(seq) : seq[i] = c})
NoDuplicates(seq) == \A i, j \in 1..Len(seq) : seq[i] = seq[j] => i = j

\* WITH new_rows (columns) AS (VALUES (%s, ...), ...): row i of the inline row
\* source takes the i-th group of Len(columns) parameters
NewRows(stmt, params) ==
    [i \in 1..stmt.nrows |->
        [c \in Range(stmt.columns) |->
            params[(i - 1) * Len(stmt.columns) + Pos(stmt.columns, c)]]]

\* the reference rows one batch row joins to under a rule's ON conditions
Hits(rf, row, join) ==
    {p \in rf : \A i \in 1..Len(join.on) :
        SqlEq(row[join.on[i][1]], p[join.on[i][2]])}

\* faulty variant: an inner JOIN: a batch row without a match joins to nothing
InnerJoin(join, hits) == [i \in 1..Len(hits) |-> hits[i][join.value]]

\* LEFT JOIN: the value column of every reference row that matches, or one
\* NULL when none does
LeftJoin(join, hits) ==
    IF hits = <<>> THEN <<NULL>>
    ELSE [i \in 1..Len(hits) |-> hits[i][join.value]]

Matches(rf, row, join) == LeftJoin(join, SetToSeq(Hits(rf, row, join)))

Product(prev, m) ==
    [i \in 1..(Len(prev) * Len(m)) |->
        Append(prev[((i - 1) \div Len(m)) + 1], m[((i - 1) % Len(m)) + 1])]

\* the rows one batch row joins to: one sequence of resolved values (one per
\* rule) for every combination of matches
RECURSIVE Bindings(_, _, _, _)
Bindings(rf, row, joins, k) ==
    IF k = 0 THEN << <<>> >>
    ELSE Product(Bindings(rf, row, joins, k - 1), Matches(rf, row, joins[k]))

RuleOf(stmt, c) == {j \in 1..Len(stmt.joins) : stmt.joins[j].out = c}

NormSelect(stmt, row, bs) ==
    [i \in 1..Len(bs) |->
        [c \in Range(stmt.columns) |->
            IF RuleOf(stmt, c) # {} THEN bs[i][Min(RuleOf(stmt, c))] ELSE row[c]]]

\* new_rows_norm: the batch's columns, a rule's output column taken from its
\* own alias, every other column from new_rows
NormRows(rf, stmt, row) ==
    NormSelect(stmt, row, Bindings(rf, row, stmt.joins, Len(stmt.joins)))

Normalized(rf, stmt, new_rows) ==
    Concat([i \in 1..Len(new_rows) |-> NormRows(rf, stmt, new_rows[i])])

\* the base relation the projection and the NOT EXISTS predicate read
SourceRows(rf, stmt, params) ==
    IF stmt.source = "new_rows" THEN NewRows(stmt, params)
    ELSE Normalized(rf, stmt, NewRows(stmt, params))

\* AND NOT EXISTS (SELECT 1 FROM T p WHERE (..AND..) OR (..AND..))
Excluded(tbl, stmt, src) ==
    /\ stmt.exclusion # <<>>
    /\ \E p \in DOMAIN tbl :
         \E k \in 1..Len(stmt.exclusion) :
            \A i \in 1..Len(stmt.exclusion[k]) :
               SqlEq(p[stmt.exclusion[k][i]], src[stmt.exclusion[k][i]])

\* what the engine rejects when it parses and analyses the statement: an empty
\* ON or an empty conflict group, an unknown table or column, a target column
\* named twice, a table alias used by two joins
Rejected(stmt) ==
    \/ \E j, k \in 1..Len(stmt.joins) :
         j # k /\ stmt.joins[j].alias = stmt.joins[k].alias
    \/ \E j \in 1..Len(stmt.joins) :
         \/ stmt.joins[j].on = <<>>
         \/ stmt.joins[j].table # RName
         \/ stmt.joins[j].value \notin RCols
         \/ \E i \in 1..Len(stmt.joins[j].on) :
              \/ stmt.joins[j].on[i][1] \notin Range(stmt.columns)
              \/ stmt.joins[j].on[i][2] \notin RCols
    \/ Range(stmt.insert_cols) \ TCols # {}
    \/ Range(stmt.select_cols) \ Range(stmt.columns) # {}
    \/ ~NoDuplicates(stmt.insert_cols)
    \/ \E k \in 1..Len(stmt.exclusion) :
         \/ stmt.exclusion[k] = <<>>
         \/ Range(stmt.exclusion[k]) \ (TCols \cap Range(stmt.columns)) # {}

\* INSERT INTO T (insert_cols) SELECT select_cols FROM ...: the row one source
\* row becomes, a column the statement does not name left NULL
Project(stmt, r) ==
    [c \in TCols |->
        IF c \in Range(stmt.insert_cols)
        THEN r[stmt.select_cols[Pos(stmt.insert_cols, c)]]
        ELSE NULL]

ProjectAll(stmt, kept) == [i \in 1..Len(kept) |-> Project(stmt, kept[i])]

\* the rows the statement would add to the table
NewTuples(tbl, rf, stmt, params) ==
    ProjectAll(stmt, SelectSeq(SourceRows(rf, stmt, params),
                               LAMBDA r : ~Excluded(tbl, stmt, r)))

ViolatesConstraint(t) == \E c \in NotNullCols : t[c] = NULL

\* ---------------------------------------------------------------- Executor
RunFailed(tbl, t, st) ==
    [err |-> Error(t, 0, ""), stage |-> st, committed |-> tbl, pending |-> <<>>,
     rowcount |-> -1]

\* faulty variant: one INSERT and one commit per row: the rows before the first one
\* the engine rejects stay committed
RunResultRowByRow(tbl, fault, rejected, tuples) ==
    IF fault = "execute" THEN RunFailed(tbl, "OperationalError", "execute")
    ELSE IF rejected THEN RunFailed(tbl, "ProgrammingError", "execute")
    ELSE IF \E i \in 1..Len(tuples) : ViolatesConstraint(tuples[i])
    THEN [err |-> Error("IntegrityError", 0, ""), stage |-> "execute",
          committed |->
             TableAdd(tbl, TableOfSeq(SubSeq(tuples, 1,
                Min({i \in 1..Len(tuples) : ViolatesConstraint(tuples[i])}) - 1))),
          pending |-> <<>>, rowcount |-> -1]
    ELSE IF fault = "commit"
    THEN [err |-> Error("OperationalError", 0, ""), stage |-> "commit",
          committed |-> tbl, pending |-> tuples, rowcount |-> Len(tuples)]
    ELSE [err |-> NoError, stage |-> "commit",
          committed |-> TableAdd(tbl, TableOfSeq(tuples)),
          pending |-> <<>>, rowcount |-> Len(tuples)]

\* the try block, lines 117-118, given what the statement would add.  committed
\* is the target table as other sessions see it when the block is left,
\* pending the rows the open transaction holds.
RunResult(tbl, fault, rejected, tuples) ==
    IF fault = "execute" THEN RunFailed(tbl, "OperationalError", "execute")
    ELSE IF rejected THEN RunFailed(tbl, "ProgrammingError", "execute")
    ELSE IF \E i \in 1..Len(tuples) : ViolatesConstraint(tuples[i])
    THEN RunFailed(tbl, "IntegrityError", "execute")
    ELSE IF fault = "commit"
    THEN [err |-> Error("OperationalError", 0, ""), stage |-> "commit",
          committed |-> tbl, pending |-> tuples, rowcount |-> Len(tuples)]
    ELSE [err |-> NoError, stage |-> "commit",
          committed |-> TableAdd(tbl, TableOfSeq(tuples)),
          pending |-> <<>>, rowcount |-> Len(tuples)]

\* cursor.execute(sql, params) then conn.commit().  fault is the engine failing
\* for a reason of its own (a lost connection): "execute" or "commit", or
\* "none".  A statement the engine rejects is never evaluated.
run_statement(tbl, rf, stmt, params, fault) ==
    RunResult(tbl, fault, Rejected(stmt),
              IF Rejected(stmt) THEN <<>> ELSE NewTuples(tbl, rf, stmt, params))

\* A request: the arguments of one insert_values call.
Request(rows, columns_to_insert, unique_columns, norm_values) ==
    [rows |-> rows, columns_to_insert |-> columns_to_insert,
     unique_columns |-> unique_columns, norm_values |-> norm_values]

\* the function has no return statement: it returns None
ReturnNone == [kind |-> "return", value |-> <<>>, err |-> NoError]
Raise(e) == [kind |-> "raise", value |-> <<>>, err |-> e]

Result(tbl, st, ev, out, rc) ==
    [table |-> tbl, status |-> st, events |-> ev, outcome |-> out, rowcount |-> rc]

\* faulty variant: the handler rolls back and swallows the exception
ExecutedSwallows(ev, run) ==
    IF run.err # NoError
    THEN Result(run.committed, "idle",
                ev \o (IF run.stage = "execute" THEN <<"execute">>
                       ELSE <<"execute", "commit">>)
                   \o <<"rollback">>,
                ReturnNone, run.rowcount)
    ELSE Result(run.committed, "idle", ev \o <<"execute", "commit">>,
                ReturnNone, run.rowcount)

\* faulty variant: the call returns the cursor's rowcount after the commit
ExecutedReturnsCount(ev, run) ==
    IF run.err # NoError
    THEN Result(run.committed, "idle",
                ev \o (IF run.stage = "execute" THEN <<"execute">>
                       ELSE <<"execute", "commit">>)
                   \o <<"rollback", "raise">>,
                Raise(run.err), run.rowcount)
    ELSE Result(run.committed, "idle", ev \o <<"execute", "commit">>,
                [kind |-> "return", value |-> <<run.rowcount>>, err |-> NoError],
                run.rowcount)

\* lines 115-130: the try block has run; on an exception roll back, re-raise
Executed(ev, run) ==
    IF run.err # NoError
    THEN Result(run.committed, "idle",
                ev \o (IF run.stage = "execute" THEN <<"execute">>
                       ELSE <<"execute", "commit">>)
                   \o <<"rollback", "raise">>,
                Raise(run.err), run.rowcount)
    ELSE Result(run.committed, "idle", ev \o <<"execute", "commit">>,
                ReturnNone, run.rowcount)

\* lines 105-130: the statement is built (or the build raised)
Built(tbl, rf, status, fault, q) ==
    IF q.err # NoError
    THEN Result(tbl, status, <<"validate_columns">> \o q.events, Raise(q.err), -1)
    ELSE Executed(<<"validate_columns">> \o q.events,
                  run_statement(tbl, rf, q.stmt, q.params, fault))

\* lines 103-130: the column check has run
Validated(tbl, rf, status, req, fault, vc) ==
    IF vc # NoError
    THEN Result(tbl, status, <<"validate_columns">>, Raise(vc), -1)
    ELSE Built(tbl, rf, status, fault,
               insert_values_query(req.rows, req.columns_to_insert,
                                   req.unique_columns, req.norm_values))

\* faulty variant: the empty-batch path commits before it returns
insert_values_commits_empty(tbl, rf, status, req, fault) ==
    IF req.rows = <<>>
    THEN Result(tbl, "idle", <<"commit">>, ReturnNone, -1)
    ELSE Validated(tbl, rf, status, req, fault, validate_columns(req.rows))

\* insert_values as a whole: what the call leaves behind.  events lists the
\* stages it ran, in order; status is the connection's transaction status.
insert_values(tbl, rf, status, req, fault) ==
    IF req.rows = <<>>
    THEN Result(tbl, status, <<>>, ReturnNone, -1)
    ELSE Validated(tbl, rf, status, req, fault, validate_columns(req.rows))

\* ------------------------------------------------------------------- state
VARIABLES
    table,      \* the committed rows of the target table T
    ref,        \* the rows of the reference table R
    status,     \* the connection's transaction status: "idle" or "intrans"
    req,        \* the request the caller issues (and may issue again)
    log,        \* one record per insert_values call made so far
    conns,      \* two further connections, each making one insert_values call
    ingest      \* the insertions _ingest_values has issued for one document

vars == <<table, ref, status, req, log, conns, ingest>>

\* ------------------------------------------------------------------ inputs
Batches(R) == UNION {[1..n -> R] : n \in 1..MaxRows}

TableRows == {r \in [TCols -> Ids] : ~ViolatesConstraint(r)}
InitTables == {TableOfSeq(s) : s \in UNION {[1..n -> TableRows] : n \in 0..MaxInit}}
\* R: "x" names one row, "y" names two, "z" names none
RefTable == {[id |-> "1", n |-> "x"], [id |-> "2", n |-> "y"], [id |-> "1", n |-> "y"]}

PlainRows == [{"a", "b"} -> {NULL} \cup Ids]
PlainUnique ==
    {<<>>, <<Str("a")>>, <<Tuple(<<"a", "b">>)>>, <<Str("a"), Str("b")>>}

NormRows3 == {r \in [{"a", "b", "n"} -> {NULL} \cup Ids \cup Names] :
                /\ r["a"] = "1"
                /\ r["b"] \in {NULL, "2"}
                /\ r["n"] \in {NULL} \cup Names}
NormSingle == << <<"b", NormRef("id", RName, Str("n"), Str("n"))>> >>
NormComposite ==
    << <<"b", NormRef("id", RName, Tuple(<<"n", "a">>), Tuple(<<"n", "id">>))>> >>
NormUnique == {<<>>, <<Tuple(<<"a", "b">>)>>}

RaggedRows == UNION {[D -> {"1", Ellipsis}] : D \in (SUBSET {"a", "b"}) \ {{}}}

BatchKeys == {Str("n"), Tuple(<<"n">>), Tuple(<<>>), Tuple(<<"n", "a">>),
              Str("ab"), Other(<<>>)}
RefKeys == {Str("n"), Tuple(<<"n">>), Tuple(<<>>), Tuple(<<"n", "id">>),
            Str("id"), Other(<<>>)}
OddUnique == {<<[kind |-> "list", v |-> <<"a", "b">>]>>,
              <<Str("a"), Other(<<>>)>>, <<Tuple(<<>>)>>}
OddRows == {[a |-> "1", b |-> NULL, n |-> "x"], [a |-> Ellipsis, b |-> NULL, n |-> "x"]}

FewRows == {[a |-> "1", b |-> NULL], [a |-> NULL, b |-> "1"]}

NoRequest == Request(<<>>, <<>>, <<>>, <<>>)

\* ----------------------------------------------------------------- actions
\* One insert_values call on the connection, recorded in log.
Call(r, fault) ==
    LET res == insert_values(table, ref, status, r, fault)
    IN /\ Len(log) < MaxCalls
       /\ table' = res.table
       /\ status' = res.status
       /\ req' = r
       /\ log' = Append(log, [before |-> table, after |-> res.table,
                              status_before |-> status, status_after |-> res.status,
                              events |-> res.events, outcome |-> res.outcome,
                              rowcount |-> res.rowcount, fault |-> fault])
       /\ UNCHANGED <<ref, conns, ingest>>

\* rows with the target's columns, no reference rules
InsertPlain ==
    /\ log = <<>>
    /\ \E rows \in Batches(PlainRows), u \in PlainUnique :
          Call(Request(rows, <<>>, u, <<>>), "none")

\* rows that carry a natural key n, resolved into b through R
InsertNormalized ==
    /\ log = <<>>
    /\ \E rows \in Batches(NormRows3), u \in NormUnique,
          nv \in {NormSingle, NormComposite} :
          Call(Request(rows, <<"a", "b">>, u, nv), "none")

\* rows whose column sets differ, or that hold the unset sentinel
InsertRagged ==
    /\ log = <<>>
    /\ \E rows \in Batches(RaggedRows) :
          Call(Request(rows, <<>>, <<>>, <<>>), "none")

\* join keys and uniqueness entries of every shape a caller can pass
InsertMalformed ==
    /\ log = <<>>
    /\ \E row \in OddRows :
          \/ \E k1 \in BatchKeys, k2 \in RefKeys :
                Call(Request(<<row>>, <<"a", "b">>, <<>>,
                             << <<"b", NormRef("id", RName, k1, k2)>> >>), "none")
          \/ \E u \in OddUnique :
                Call(Request(<<row>>, <<"a", "b">>, u, <<>>), "none")

InsertEmpty ==
    /\ log = <<>>
    /\ \E u \in PlainUnique : Call(Request(<<>>, <<>>, u, <<>>), "none")

\* the engine fails for a reason of its own while executing or committing
InsertDuringOutage ==
    /\ log = <<>>
    /\ \E rows \in Batches(FewRows), u \in {<<>>, <<Str("a")>>},
          fault \in {"execute", "commit"} :
          Call(Request(rows, <<>>, u, <<>>), fault)

\* the caller issues the same request again (a document ingested again)
InsertAgain ==
    /\ log # <<>>
    /\ Call(req, "none")

\* PostgresWrapper.execute: a statement that returns rows leaves the
\* transaction open, any other is committed
ExecuteQuery ==
    /\ Len(log) < MaxCalls
    /\ \E returns_rows \in BOOLEAN :
          status' = IF returns_rows THEN "intrans" ELSE "idle"
    /\ UNCHANGED <<table, ref, req, log, conns, ingest>>

\* a connection that has not called yet
Conns == {"c1", "c2"}
IdleConn == [pc |-> "idle", req |-> NoRequest, seen |-> <<>>, pending |-> <<>>,
             racing |-> FALSE]

Init ==
    /\ table \in InitTables
    /\ ref = RefTable
    /\ status = "idle"
    /\ req = NoRequest
    /\ log = <<>>
    /\ conns = [c \in Conns |-> IdleConn]
    /\ ingest = <<>>

Next ==
    \/ InsertPlain
    \/ InsertNormalized
    \/ InsertRagged
    \/ InsertMalformed
    \/ InsertEmpty
    \/ InsertDuringOutage
    \/ InsertAgain
    \/ ExecuteQuery

Spec == Init /\ [][Next]_vars

\* ------------------------------------------- requests of the builder's shapes
\* columns_to_insert: absent, a subset, the batch order, a permutation
Projections == {<<>>, <<"a">>, <<"a", "b">>, <<"b", "a">>}

\* rows holding semi-structured values, and rows of one column only
JsonRows ==
    {r \in [{"a", "b"} -> Ids \cup {PyDict, PyList}] : r["a"] \in Ids}
       \cup [{"b"} -> {"2", PyList}]

\* rows with two natural keys, n and m, and the placeholders they resolve into
TwoKeyRows ==
    {r \in [{"a", "b", "n", "m"} -> {NULL} \cup Names] :
        /\ r["a"] = NULL /\ r["b"] = NULL /\ r["m"] \in {"x", "z"}}
\* two rules against the same reference table
TwoRules ==
    << <<"a", NormRef("id", RName, Str("m"), Str("n"))>>,
       <<"b", NormRef("id", RName, Str("n"), Str("n"))>> >>
TwoRulesComposite ==
    << <<"a", NormRef("id", RName, Str("m"), Str("n"))>>,
       <<"b", NormRef("id", RName, Tuple(<<"n", "m">>), Tuple(<<"n", "n">>))>> >>
\* reference tables named so that name and index could run together
TwoRulesOddNames ==
    << <<"a", NormRef("id", "R_1", Str("m"), Str("n"))>>,
       <<"b", NormRef("id", RName, Str("n"), Str("n"))>> >>

InsertProjected ==
    /\ log = <<>>
    /\ \E rows \in Batches(PlainRows), cols \in Projections,
          u \in {<<>>, <<Tuple(<<"b", "a">>)>>} :
          Call(Request(rows, cols, u, <<>>), "none")

InsertJson ==
    /\ log = <<>>
    /\ \E rows \in Batches(JsonRows), cols \in {<<>>, <<"b">>},
          u \in {<<>>, <<Str("b")>>} :
          Call(Request(rows, cols, u, <<>>), "none")

InsertTwoRules ==
    /\ log = <<>>
    /\ \E rows \in Batches(TwoKeyRows),
          nv \in {TwoRules, TwoRulesComposite, TwoRulesOddNames} :
          Call(Request(rows, <<"a", "b">>, <<>>, nv), "none")

NextBuild ==
    \/ InsertProjected
    \/ InsertJson
    \/ InsertTwoRules

SpecBuild == Init /\ [][NextBuild]_vars

\* ------------------------------------------ two callers, two connections
\* faulty variant: a statement also sees what other transactions have not
\* committed yet
VisibleDirty(tbl, cs, c) ==
    TableAdd(tbl, TableOfSeq(Concat(SetToSeq(
        {cs[d].pending : d \in {e \in Conns \ {c} : cs[e].pc = "executed"}}))))

\* the rows of the target table a statement on connection c reads: the
\* connections are opened with the engine's default isolation level, under
\* which a statement sees committed rows only
Visible(tbl, cs, c) == tbl

RaceRows == {r \in [TCols -> Ids] : r["b"] = "1"}
RaceUnique == {<<Str("a")>>, <<Tuple(<<"a", "b">>)>>}

\* line 117 on connection c: the statement has run, its rows are pending
Executing(c, r, seen, failed, tuples) ==
    /\ conns' = [conns EXCEPT ![c] =
                    [pc |-> IF failed THEN "failed" ELSE "executed",
                     req |-> r, seen |-> seen,
                     pending |-> IF failed THEN <<>> ELSE tuples,
                     racing |-> \E d \in Conns \ {c} : conns[d].pc = "executed"]]
    /\ UNCHANGED <<table, ref, status, req, log, ingest>>

ExecuteOn(c, r, seen, q) ==
    Executing(c, r, seen,
              \/ q.err # NoError
              \/ Rejected(q.stmt)
              \/ \E t \in Range(NewTuples(seen, ref, q.stmt, q.params)) :
                    ViolatesConstraint(t),
              IF q.err # NoError \/ Rejected(q.stmt) THEN <<>>
              ELSE NewTuples(seen, ref, q.stmt, q.params))

\* a caller on connection c calls insert_values and the statement is executed
RaceExecute ==
    \E c \in Conns, rows \in Batches(RaceRows), u \in RaceUnique :
        /\ conns[c].pc = "idle"
        /\ ExecuteOn(c, Request(rows, <<>>, u, <<>>), Visible(table, conns, c),
                     insert_values_query(rows, <<>>, u, <<>>))

\* line 118 on connection c: the pending rows are committed
RaceCommit ==
    \E c \in Conns :
        /\ conns[c].pc = "executed"
        /\ table' = TableAdd(table, TableOfSeq(conns[c].pending))
        /\ conns' = [conns EXCEPT ![c].pc = "committed"]
        /\ UNCHANGED <<ref, status, req, log, ingest>>

NextRace ==
    \/ RaceExecute
    \/ RaceCommit

SpecRace == Init /\ [][NextRace]_vars

\* ------------------------------------------------ DataIngestor._ingest_values
\* the insert_values calls of _ingest_values, in the order of the code
Steps == <<"people", "teams", "matches", "match_teams", "match_players",
           "overs_deliveries">>

\* faulty variant: matches is inserted before the tables it resolves against
NextTableMatchesFirst(n) ==
    <<"matches", "people", "teams", "match_teams", "match_players",
      "overs_deliveries">>[n + 1]

\* the table of the call that follows n completed calls
NextTable(n) == Steps[n + 1]

\* the reference tables (t2_name) of the rules of each call
ResolvesAgainst(t) ==
    CASE t = "matches" -> {"teams"}
      [] t = "match_teams" -> {"matches", "teams"}
      [] t = "match_players" -> {"matches", "teams", "people"}
      [] t = "overs_deliveries" -> {"matches", "teams", "people"}
      [] OTHER -> {}

\* what one insert_values call does: commits its rows and returns, returns at
\* once on an empty batch, or raises
CallOutcomes == {"committed", "empty", "raised"}

\* the next db.insert_values call of _ingest_values; an exception leaves the
\* function
IngestInsert ==
    /\ Len(ingest) < Len(Steps)
    /\ \A k \in 1..Len(ingest) : ingest[k].outcome # "raised"
    /\ \E o \in CallOutcomes :
          ingest' = Append(ingest, [table |-> NextTable(Len(ingest)), outcome |-> o])
    /\ UNCHANGED <<table, ref, status, req, log, conns>>

NextIngest == IngestInsert

SpecIngest == Init /\ [][NextIngest]_vars

\* ============================================================== properties
Has(ev, e) == e \in Range(ev)
Times(ev, e) == Cardinality({k \in 1..Len(ev) : ev[k] = e})
Calls == 1..Len(log)

\* the statement built for a request whose batch passes the column check
Q(r) == insert_values_query(r.rows, r.columns_to_insert, r.unique_columns,
                            r.norm_values)
Buildable(r) ==
    /\ r.rows # <<>>
    /\ validate_columns(r.rows) = NoError
    /\ Q(r).err = NoError
Runnable(r) == Buildable(r) /\ ~Rejected(Q(r).stmt)

Succeeded(c) == c.outcome.kind = "return" /\ Has(c.events, "commit")
ExecutionFailed(c) == c.outcome.kind = "raise" /\ Has(c.events, "execute")
Inserted(c) == RowCount(c.after) - RowCount(c.before)
Added(c, r) == Copies(c.after, r) - Copies(c.before, r)
HasSentinel(rows) ==
    \E j \in 1..Len(rows) : \E k \in DOMAIN rows[j] : rows[j][k] = Ellipsis

\* ---- C1
\* C1 (atomicity): a call whose statement fails while it is executed or
\* committed leaves the target table exactly as it was before the call.
C1_FailedBatchLeavesTableUnchanged ==
    \A i \in Calls :
        ExecutionFailed(log[i]) => /\ log[i].after = log[i].before
                                   /\ (i = Len(log) => table = log[i].before)

\* a two-row batch, one row insertable and one violating NOT NULL, was
\* rejected by the engine and nothing of it is in the table
C1_Witness ==
    \E i \in Calls :
        /\ log[i].outcome.err.type = "IntegrityError"
        /\ req.unique_columns = <<>> /\ req.norm_values = <<>>
        /\ \E j, k \in 1..Len(req.rows) :
              /\ DOMAIN req.rows[j] = TCols /\ DOMAIN req.rows[k] = TCols
              /\ ~ViolatesConstraint(req.rows[j])
              /\ ViolatesConstraint(req.rows[k])
        /\ log[i].after = log[i].before

\* ---- C2
UniqueWellFormed(r) ==
    /\ r.unique_columns # <<>>
    /\ \A k \in 1..Len(r.unique_columns) :
          /\ r.unique_columns[k].kind \in {"str", "tuple"}
          /\ r.unique_columns[k].v # <<>>
\* every column the request writes is a column of some uniqueness entry
UniqueCoversKey(r) ==
    /\ UniqueWellFormed(r)
    /\ \A c \in TCols \cap DOMAIN r.rows[1] :
          \E k \in 1..Len(r.unique_columns) : c \in Range(r.unique_columns[k].v)

\* C2 (idempotence under uniqueness): when a request with a uniqueness
\* constraint over its key columns inserted its N rows, the same request
\* issued again inserts 0 rows and the row count stays.
C2_SecondCallInsertsNothing ==
    (/\ Len(log) >= 2
     /\ req.rows # <<>>
     /\ UniqueCoversKey(req)
     /\ Succeeded(log[1])
     /\ Inserted(log[1]) = Len(req.rows)
     /\ Succeeded(log[2]))
    => /\ log[2].rowcount = 0
       /\ RowCount(log[2].after) = RowCount(log[1].after)

\* ---- C3
\* the base relation of a request: the batch itself, or its normalized relation
BaseRelation(r) ==
    IF r.norm_values = <<>> THEN r.rows
    ELSE SourceRows(ref, Q(r).stmt, Q(r).params)
\* the base relation a request ought to read: the batch when it has no
\* reference rules, else the batch joined to the reference table
BoundRows(r) ==
    [j \in 1..Len(r.rows) |->
        [c \in DOMAIN r.rows[j] |->
            IF r.rows[j][c] = PyDict THEN "{\"k\": 1}"
            ELSE IF r.rows[j][c] = PyList THEN "[1, 2]"
            ELSE r.rows[j][c]]]
ExpectedBase(r) ==
    IF r.norm_values = <<>> THEN BoundRows(r)
    ELSE Normalized(ref, Q(r).stmt, BoundRows(r))
\* the target row a base row is written as
Written(r, row) ==
    [c \in TCols |->
        IF c \in Range(IF r.columns_to_insert # <<>> THEN r.columns_to_insert
                       ELSE Keys(r.rows[1]))
        THEN row[c] ELSE NULL]
\* some target row equals the source row on every column of some constraint
MatchedBy(tbl, row, unique_columns) ==
    \E p \in DOMAIN tbl :
       \E k \in 1..Len(unique_columns) :
          \A c \in Range(unique_columns[k].v) : p[c] = row[c]
NotMatched(tbl, r) ==
    SelectSeq(BaseRelation(r), LAMBDA row : ~MatchedBy(tbl, row, r.unique_columns))

\* C3 (deduplication semantics): a call with uniqueness constraints that
\* commits adds exactly the base rows for which no target row equals the row
\* on every column of some constraint, and no call removes or changes a row
\* the table held.
C3_ExcludedIffMatched ==
    \A i \in Calls :
        /\ (Succeeded(log[i]) /\ UniqueWellFormed(req))
              => log[i].after =
                    TableAdd(log[i].before,
                             TableOfSeq([j \in 1..Len(NotMatched(log[i].before, req)) |->
                                Written(req, NotMatched(log[i].before, req)[j])]))
        /\ \A p \in DOMAIN log[i].before :
              Copies(log[i].after, p) >= Copies(log[i].before, p)

\* ---- C4
\* the reference rows whose join-key columns all equal the batch row's
RefMatches(rule, row) ==
    {p \in ref : \A i \in 1..Len(rule.t1_key_join.v) :
        SqlEq(row[rule.t1_key_join.v[i]], p[rule.t2_key_join.v[i]])}
\* a key's arity: 1 for a single column name, k for a tuple of k names
Arity(k) == Len(k.v)
EqualArity(rule) ==
    /\ rule.t1_key_join.kind \in {"str", "tuple"}
    /\ rule.t2_key_join.kind \in {"str", "tuple"}
    /\ Arity(rule.t1_key_join) = Arity(rule.t2_key_join)
    /\ Arity(rule.t1_key_join) > 0
RulesWellFormed(r) ==
    \A k \in 1..Len(r.norm_values) : EqualArity(r.norm_values[k][2])
RuleColumns(r) == {r.norm_values[k][1] : k \in 1..Len(r.norm_values)}
\* the normalized rows of one batch row resolve it rightly
ResolvedRightly(r, row, nr) ==
    /\ Len(nr) >= 1
    /\ \A m \in 1..Len(nr) :
          /\ \A c \in DOMAIN row \ RuleColumns(r) : nr[m][c] = row[c]
          /\ \A k \in 1..Len(r.norm_values) :
                IF RefMatches(r.norm_values[k][2], row) = {}
                THEN nr[m][r.norm_values[k][1]] = NULL
                ELSE \E p \in RefMatches(r.norm_values[k][2], row) :
                        nr[m][r.norm_values[k][1]] = p[r.norm_values[k][2].t2_key_value]

\* C4 (referential resolution): in the normalized relation every batch row is
\* kept; a rule's output column holds the id of a reference row whose join-key
\* columns all equal the batch row's, or NULL when no reference row matches;
\* every other column keeps its batch value; and without uniqueness
\* constraints a committed call adds every normalized row to the table.
C4_ResolvesOrNull ==
    \A i \in Calls :
        (Runnable(req) /\ req.norm_values # <<>> /\ RulesWellFormed(req))
        => /\ \A j \in 1..Len(req.rows) :
                 ResolvedRightly(req, req.rows[j],
                                 NormRows(ref, Q(req).stmt, req.rows[j]))
           /\ (Succeeded(log[i]) /\ req.unique_columns = <<>>)
                 => \A j \in 1..Len(req.rows) :
                       \A nr \in Range(NormRows(ref, Q(req).stmt, req.rows[j])) :
                          Added(log[i], Written(req, nr)) >= 1

\* one committed batch held a row whose name "x" resolved to id 1 and a row
\* whose name "z" matched nothing and was stored with a NULL id
C4_Witness ==
    \E i \in Calls :
        /\ Succeeded(log[i]) /\ req.norm_values = NormSingle
        /\ req.unique_columns = <<>>
        /\ \E j, k \in 1..Len(req.rows) :
              /\ req.rows[j]["n"] = "x" /\ req.rows[k]["n"] = "z"
              /\ Added(log[i], [a |-> req.rows[j]["a"], b |-> "1"]) >= 1
              /\ Added(log[i], [a |-> req.rows[k]["a"], b |-> NULL]) >= 1

\* ---- C5
Lacking(rows) == {j \in 1..Len(rows) : DOMAIN rows[1] \ DOMAIN rows[j] # {}}
Differing(rows) == {j \in 1..Len(rows) : DOMAIN rows[1] # DOMAIN rows[j]}

\* C5 (schema mismatch by symmetric difference): a batch with a row
\* whose column set differs from row 0's in either direction fails with the
\* missing-columns error naming the first such row, before anything is built.
C5_SymmetricDifferenceRejected ==
    \A i \in Calls :
        (req.rows # <<>> /\ Differing(req.rows) # {})
        => /\ log[i].outcome =
                 Raise(Error("ValueError:missing_columns", Min(Differing(req.rows)) - 1, ""))
           /\ log[i].events = <<"validate_columns">>

\* The half of C5 the column check does enforce (a lemma, not the claim): a
\* batch with a row that lacks a column of row 0 fails with
\* the missing-columns error naming the first such row, with nothing built or
\* executed and the table and the connection untouched; a batch whose rows
\* only carry columns beyond row 0's passes the column check.
C5_MissingColumnsRejected ==
    \A i \in Calls :
        req.rows # <<>>
        => IF Lacking(req.rows) # {}
           THEN /\ log[i].outcome =
                      Raise(Error("ValueError:missing_columns",
                                  Min(Lacking(req.rows)) - 1, ""))
                /\ log[i].events = <<"validate_columns">>
                /\ log[i].after = log[i].before
                /\ log[i].status_after = log[i].status_before
           ELSE /\ log[i].outcome.err.type # "ValueError:missing_columns"
                /\ Has(log[i].events, "values_cte")

\* a two-row batch whose second row lacks a column of the first was rejected
C5_Witness ==
    \E i \in Calls :
        /\ Len(req.rows) >= 2 /\ Lacking(req.rows) # {}
        /\ log[i].outcome.err.type = "ValueError:missing_columns"
        /\ log[i].after = log[i].before

\* ---- C6
\* C6 (the sentinel is rejected before anything is built): a batch that passes
\* the column check and holds the unset sentinel fails with the sentinel
\* error naming the row and column, and no part of the statement (the row
\* source, the normalization CTE) was built before the scan.
C6_SentinelRejectedBeforeBuild ==
    \A i \in Calls :
        (req.rows # <<>> /\ Lacking(req.rows) = {} /\ HasSentinel(req.rows))
        => /\ log[i].outcome = Raise(validate_values(req.rows))
           /\ ~Has(log[i].events, "values_cte")
           /\ ~Has(log[i].events, "norm_cte")
           /\ ~Has(log[i].events, "execute")

\* ---- C7
\* C7 (malformed join keys are rejected at build time): a request with a rule
\* whose join keys differ in arity or are empty, or with a uniqueness entry
\* that is neither a column name nor a tuple, raises the builder's error and
\* executes nothing.
C7_MalformedKeysRejectedAtBuild ==
    \A i \in Calls :
        (req.rows # <<>> /\ Lacking(req.rows) = {} /\ ~HasSentinel(req.rows))
        => /\ (\E k \in 1..Len(req.norm_values) :
                  /\ req.norm_values[k][2].t1_key_join.kind \in {"str", "tuple"}
                  /\ req.norm_values[k][2].t2_key_join.kind \in {"str", "tuple"}
                  /\ ~EqualArity(req.norm_values[k][2]))
                 => /\ log[i].outcome.err.type \in
                          {"ValueError:join_length", "TypeError:join_keys"}
                    /\ ~Has(log[i].events, "execute")
           /\ (\E k \in 1..Len(req.unique_columns) :
                  req.unique_columns[k].kind \notin {"str", "tuple"})
                 => /\ log[i].outcome.err.type = "TypeError:conflict_column"
                    /\ ~Has(log[i].events, "execute")

\* ---- C8
\* no batch row joins to more than one row of a reference table
AtMostOneMatch(r) ==
    \A j \in 1..Len(r.rows) : \A k \in 1..Len(Q(r).stmt.joins) :
        Cardinality(Hits(ref, r.rows[j], Q(r).stmt.joins[k])) <= 1

C9_EmptyBatchIsNoOp ==
    \A i \in Calls :
        req.rows = <<>>
        => /\ log[i].events = <<>>
           /\ log[i].outcome.kind = "return"
           /\ log[i].after = log[i].before
           /\ log[i].status_after = log[i].status_before
           /\ (i = Len(log) => table = log[i].before)

\* an empty batch was passed on a connection with an open transaction, which
\* is still open
C9_Witness ==
    \E i \in Calls :
        /\ req.rows = <<>> /\ req.unique_columns # <<>>
        /\ log[i].status_before = "intrans" /\ log[i].status_after = "intrans"
        /\ log[i].events = <<>>

\* ---- C10
\* what the engine answers to the call's statement
EngineAnswer(c) == run_statement(c.before, ref, Q(req).stmt, Q(req).params, c.fault)
LastTwo(ev) == <<ev[Len(ev) - 1], ev[Len(ev)]>>

\* C10 (storage failure handling): when the engine raises while the statement
\* is executed or committed, the call rolls back, then raises the engine's
\* error; it does not return, executes the statement once, and the rollback
\* comes after the stage that failed.
C10_RollbackThenReraise ==
    \A i \in Calls :
        (Has(log[i].events, "execute") /\ EngineAnswer(log[i]).err # NoError)
        => /\ log[i].outcome = Raise(EngineAnswer(log[i]).err)
           /\ LastTwo(log[i].events) = <<"rollback", "raise">>
           /\ log[i].events[Len(log[i].events) - 2] = EngineAnswer(log[i]).stage
           /\ Times(log[i].events, "execute") = 1
           /\ Times(log[i].events, "rollback") = 1
           /\ log[i].status_after = "idle"

\* the engine failed at commit and the call rolled back and raised its error
C10_Witness ==
    \E i \in Calls :
        /\ log[i].fault = "commit"
        /\ log[i].outcome = Raise(Error("OperationalError", 0, ""))
        /\ LastTwo(log[i].events) = <<"rollback", "raise">>
        /\ Has(log[i].events, "commit")

\* ---- C15
\* some target row equals the row, by SQL "=", on every column of a constraint
MatchedBySql(tbl, row, unique_columns) ==
    \E p \in DOMAIN tbl :
       \E k \in 1..Len(unique_columns) :
          \A c \in Range(unique_columns[k].v) : SqlEq(p[c], row[c])
KeptOf(tbl, rel, unique_columns) ==
    SelectSeq(rel, LAMBDA row : ~MatchedBySql(tbl, row, unique_columns))
WrittenAll(r, rel) == [j \in 1..Len(rel) |-> Written(r, rel[j])]

\* C15 (stage order of normalization and deduplication): in a committed call
\* with uniqueness constraints, the projection and the NOT EXISTS predicate
\* both read the normalized relation when the request has reference rules (a
\* rule's output column is compared by its resolved id), and both read the
\* raw batch when it has none.
C15_DedupReadsNormalizedRelation ==
    \A i \in Calls :
        (Succeeded(log[i]) /\ UniqueWellFormed(req))
        => /\ Q(req).stmt.source =
                 (IF req.norm_values # <<>> THEN "new_rows_norm" ELSE "new_rows")
           /\ log[i].after =
                 TableAdd(log[i].before,
                          TableOfSeq(WrittenAll(req,
                             KeptOf(log[i].before, ExpectedBase(req),
                                    req.unique_columns))))

\* a row carrying the placeholder 2 and the name "x" was left out because the
\* table held (1, 1), the row its name resolves to, and not (1, 2)
C15_Witness ==
    \E i \in Calls :
        /\ Succeeded(log[i]) /\ req.norm_values = NormSingle
        /\ req.unique_columns = <<Tuple(<<"a", "b">>)>>
        /\ \E j \in 1..Len(req.rows) :
              req.rows[j] = [a |-> "1", b |-> "2", n |-> "x"]
        /\ Copies(log[i].before, [a |-> "1", b |-> "1"]) >= 1
        /\ Copies(log[i].before, [a |-> "1", b |-> "2"]) = 0
        /\ Added(log[i], [a |-> "1", b |-> "1"]) = 0
        /\ Added(log[i], [a |-> "1", b |-> "2"]) = 0

\* ---- C16
\* no two rows of the table agree on every column of K
UniqueIn(tbl, K) ==
    \A p, q \in DOMAIN tbl :
        (\A c \in K : p[c] = q[c]) => (p = q /\ tbl[p] = 1)

\* C16 (uniqueness is preserved by sequential inserts): when the table held no
\* two rows agreeing on every column of a constraint K before the first call,
\* it holds none after any call of a sequence in which every call passes K.
C16_UniquenessPreserved ==
    \A i \in Calls :
        UniqueWellFormed(req)
        => \A k \in 1..Len(req.unique_columns) :
              UniqueIn(log[1].before, Range(req.unique_columns[k].v))
              => UniqueIn(log[i].after, Range(req.unique_columns[k].v))

\* ---- C17
\* C17 (one batch row yields at most one inserted row): for a request with
\* reference rules the normalized relation has exactly one row per batch row,
\* whatever the reference table holds, and a committed call inserts at most
\* N rows.
C17_OneRowPerBatchRow ==
    \A i \in Calls :
        (Runnable(req) /\ req.norm_values # <<>> /\ RulesWellFormed(req))
        => /\ \A j \in 1..Len(req.rows) :
                 Len(NormRows(ref, Q(req).stmt, req.rows[j])) = 1
           /\ Succeeded(log[i]) => Inserted(log[i]) <= Len(req.rows)

\* ---- C11
Selected(r) ==
    IF r.columns_to_insert # <<>> THEN r.columns_to_insert ELSE Keys(r.rows[1])

\* C11 (column projection alignment): for a columns_to_insert that lists batch
\* columns without repetition, in any order, the statement's target-column
\* list and its select list are both that list (all batch columns when it is
\* not supplied), and a committed call stores in every listed target column c
\* the base relation's value of column c.
C11_ProjectionAligned ==
    \A i \in Calls :
        (/\ Buildable(req)
         /\ NoDuplicates(req.columns_to_insert)
         /\ Range(req.columns_to_insert) \subseteq Range(Keys(req.rows[1])))
        => /\ Q(req).stmt.insert_cols = Selected(req)
           /\ Q(req).stmt.select_cols = Selected(req)
           /\ Succeeded(log[i])
                 => log[i].after =
                       TableAdd(log[i].before,
                                TableOfSeq(WrittenAll(req,
                                   KeptOf(log[i].before, ExpectedBase(req),
                                          req.unique_columns))))

\* a row (a, b) = (1, 2) was inserted through the column list <<b, a>> and is
\* stored as a = 1, b = 2
C11_Witness ==
    \E i \in Calls :
        /\ Succeeded(log[i]) /\ req.columns_to_insert = <<"b", "a">>
        /\ req.rows = <<[a |-> "1", b |-> "2"]>>
        /\ Added(log[i], [a |-> "1", b |-> "2"]) = 1
        /\ Added(log[i], [a |-> "2", b |-> "1"]) = 0

\* ---- C12
\* C12 (parameter/placeholder alignment): a built statement has N groups of M
\* placeholders and N*M parameters, M the number of columns of row 0; the
\* parameter at i*M + j is row i's value of row 0's j-th column, found by
\* name, a dict or a list as its JSON text.
C12_ParamsAligned ==
    \A i \in Calls :
        Buildable(req)
        => /\ Q(req).stmt.nrows = Len(req.rows)
           /\ Q(req).stmt.columns = Keys(req.rows[1])
           /\ Len(Q(req).params) = Len(req.rows) * Len(Keys(req.rows[1]))
           /\ \A r \in 0..(Len(req.rows) - 1) :
                 \A j \in 0..(Len(Keys(req.rows[1])) - 1) :
                    Q(req).params[r * Len(Keys(req.rows[1])) + j + 1] =
                       BoundRows(req)[r + 1][Keys(req.rows[1])[j + 1]]

\* a batch whose row 0 has the one column b, holding a list, and whose row 1
\* also carries a: two parameters, the list's JSON text and row 1's b
C12_Witness ==
    /\ log # <<>>
    /\ req.rows = <<[b |-> PyList], [a |-> "1", b |-> "2"]>>
    /\ Q(req).err = NoError
    /\ Q(req).params = <<"[1, 2]", "2">>

\* ---- C14
Aliases(r) == [k \in 1..Len(Q(r).stmt.joins) |-> Q(r).stmt.joins[k].alias]
\* the request with its k-th rule alone
Alone(r, k) == Request(r.rows, r.columns_to_insert, r.unique_columns,
                       <<r.norm_values[k]>>)
\* the values a rule's output column takes in the rows one batch row becomes
Resolved(r, row, c) == {nr[c] : nr \in Range(NormRows(ref, Q(r).stmt, row))}

\* C14 (independent joins per rule): the aliases of the rules of one request
\* are pairwise different, also for rules naming the same reference table, and
\* the ids a rule's output column resolves to are those the rule resolves to
\* when it is the request's only rule.
C14_RulesJoinIndependently ==
    \A i \in Calls :
        (Buildable(req) /\ req.norm_values # <<>>)
        => /\ NoDuplicates(Aliases(req))
           /\ (Runnable(req) /\ RulesWellFormed(req))
                 => \A j \in 1..Len(req.rows) :
                       \A k \in 1..Len(req.norm_values) :
                          Resolved(req, req.rows[j], req.norm_values[k][1]) =
                             Resolved(Alone(req, k), req.rows[j],
                                      req.norm_values[k][1])

\* two rules against R in one committed call: the row with m = "x" and
\* n = "z" is stored with a = 1 (from m) and b = NULL (from n)
C14_Witness ==
    \E i \in Calls :
        /\ Succeeded(log[i]) /\ req.norm_values = TwoRules
        /\ \E j \in 1..Len(req.rows) :
              req.rows[j]["m"] = "x" /\ req.rows[j]["n"] = "z"
        /\ Added(log[i], [a |-> "1", b |-> NULL]) >= 1
        /\ Aliases(req) = <<"R_0", "R_1">>

\* ---- C13
\* the rows of the table that agree with the row on every column of K
CountAgree(tbl, row, K) ==
    SumOver(tbl, {p \in DOMAIN tbl : \A c \in K : p[c] = row[c]})
\* both requests pass the constraint K and hold a row with the same K values,
\* which no row of the table had when the first statement ran
SharedAbsentKey(c, d, row, K) ==
    /\ conns[c].req.unique_columns = conns[d].req.unique_columns
    /\ \E k \in 1..Len(conns[c].req.unique_columns) :
          K = Range(conns[c].req.unique_columns[k].v)
    /\ Len(conns[c].req.unique_columns) = 1
    /\ row \in Range(conns[c].req.rows)
    /\ \E other \in Range(conns[d].req.rows) : \A x \in K : other[x] = row[x]
    /\ CountAgree(conns[c].seen, row, K) = 0

\* C13 (known check-then-insert race): when a second connection's statement
\* runs while the first connection's insert is still uncommitted and both
\* batches hold a row with the same constraint key, absent from the table,
\* both existence checks pass, and once both have committed the table holds
\* at least two rows agreeing on that key.
C13_RaceInsertsBoth ==
    \A c, d \in Conns :
        (/\ c # d
         /\ conns[c].pc = "committed" /\ conns[d].pc = "committed"
         /\ conns[d].racing)
        => \A row \in Range(conns[c].req.rows) :
              \A K \in SUBSET TCols :
                 SharedAbsentKey(c, d, row, K) => CountAgree(table, row, K) >= 2

\* both connections inserted (1, 1) under the constraint on a into an empty
\* table, the second running before the first committed: the table holds it
\* twice
C13_Witness ==
    \E c, d \in Conns :
        /\ c # d
        /\ conns[c].pc = "committed" /\ conns[d].pc = "committed"
        /\ conns[d].racing /\ ~conns[c].racing
        /\ conns[c].req.rows = <<[a |-> "1", b |-> "1"]>>
        /\ conns[d].req.rows = <<[a |-> "1", b |-> "1"]>>
        /\ conns[c].req.unique_columns = <<Str("a")>>
        /\ conns[d].req.unique_columns = <<Str("a")>>
        /\ conns[c].seen = <<>>
        /\ Copies(table, [a |-> "1", b |-> "1"]) = 2

\* ---- C18
\* C18 (ingestion ordering): every insertion _ingest_values issues comes after
\* the insertions into all tables its rules resolve against have returned
\* (their rows committed), and no insertion is issued after one that raised.
C18_ReferencedTablesInsertedFirst ==
    /\ \A i \in 1..Len(ingest) :
          \A t \in ResolvesAgainst(ingest[i].table) :
             \E j \in 1..(i - 1) :
                ingest[j].table = t /\ ingest[j].outcome # "raised"
    /\ \A i \in 1..(Len(ingest) - 1) : ingest[i].outcome # "raised"
    /\ \A i, j \in 1..Len(ingest) : ingest[i].table = ingest[j].table => i = j

\* the document was ingested up to match_players, whose insertion raised
C18_Witness ==
    /\ Len(ingest) = 5
    /\ ingest[5] = [table |-> "match_players", outcome |-> "raised"]
    /\ \A i \in 1..4 : ingest[i].outcome = "committed"
    /\ {ingest[i].table : i \in 1..4} = {"people", "teams", "matches", "match_teams"}

====
